---- MODULE Spec2Model ----
(***************************************************************************)
(* Model of the component lifecycle tree of @vandrite/plugin-api           *)
(* (class Component in src/src/View.ts).                                   *)
(*                                                                         *)
(* The program is single-threaded and synchronous, but the hooks a         *)
(* component calls (onload, onunload, the registered disposables) are user *)
(* code which may call back into any component.  The model therefore keeps *)
(* an explicit call stack: an unload() in progress is a frame holding its  *)
(* position in the method, a running hook is a frame on top of it, and     *)
(* while a hook frame is on top any method of any component may be called. *)
(* With an empty stack the caller is the host.                             *)
(***************************************************************************)
EXTENDS Integers, Sequences, FiniteSets, TLC

\* ---------------------------------------------------------------- bounds
\* Calls the host and the hooks may make in one behaviour.
MaxCalls == 5
\* Longest children / intervals / disposables array.
MaxLen == 2
\* Deepest call stack.
MaxDepth == 4

\* The components, the timer handles and the disposable callbacks.
Comps == {1, 2, 3}
Handles == {1}
Cbs == {1, 2}
\* The (parent, child) pairs addChild / removeChild are called with.
Pairs == {<<1, 2>>, <<1, 3>>, <<2, 3>>}

VARIABLES
    loaded,       \* Component._loaded, per component
    children,     \* Component._children
    intervals,    \* Component._intervals
    disposables,  \* Component._disposables
    stack,        \* the call stack, innermost frame last
    log,          \* what the components did, in order (observable effects)
    regs,         \* history: register(cb) calls since _disposables was last reset
    last,         \* the last call the host or a hook made, and what it returned
    calls,        \* number of calls made by the host and the hooks
    plugin,       \* Plugin.registeredCommands, registeredEvents, settingsData
    env           \* the application, the document and the settings file

vars == <<loaded, children, intervals, disposables, stack, log, regs, last, calls,
          plugin, env>>

\* ---------------------------------------------------------------- helpers
Top == stack[Len(stack)]
Pop(s) == SubSeq(s, 1, Len(s) - 1)
SetTop(s, f) == [s EXCEPT ![Len(s)] = f]

Event(e, c, inv, x, s) == [ev |-> e, c |-> c, inv |-> inv, x |-> x, s |-> s]

\* A call op(c, x), its return value (0: undefined) and, for addChild and
\* removeChild, the children it found.
Call(op, c, x, ret, was) == [op |-> op, c |-> c, x |-> x, ret |-> ret, was |-> was]

Frame(kind, c, inv, pc, len) ==
    [kind |-> kind, c |-> c, inv |-> inv, pc |-> pc, k |-> 0, len |-> len,
     live |-> TRUE, arr |-> <<>>, clean |-> TRUE]

\* The caller is the host (empty stack) or a running hook.
CanCall == /\ calls < MaxCalls
           /\ IF stack = <<>> THEN TRUE ELSE Top.kind = "hook"

\* A call made from inside a hook marks every invocation in progress as re-entered.
Dirty(s) == [i \in 1..Len(s) |-> [s[i] EXCEPT !.clean = FALSE]]

\* Mutant: unshift instead of push.
PushFront(arr, x) == <<x>> \o arr

\* Array.prototype.push
Push(arr, x) == Append(arr, x)

\* Array.prototype.indexOf: 0-based index of the first match, -1 if none.
IndexOf(arr, x) ==
    IF \E i \in 1..Len(arr) : arr[i] = x
    THEN (CHOOSE i \in 1..Len(arr) : arr[i] = x /\ \A j \in 1..(i - 1) : arr[j] # x) - 1
    ELSE -1

\* Array.prototype.splice(index, 1)
Splice1(arr, index) ==
    SubSeq(arr, 1, index) \o SubSeq(arr, index + 2, Len(arr))

\* The array a forEach in progress iterates: the component's current array while
\* the field still refers to it, the old array object once the field was reset.
ArrOf(f) ==
    IF f.live
    THEN IF f.pc = "children" THEN children[f.c] ELSE disposables[f.c]
    ELSE f.arr

\* `this._x = []` while outer invocations on the same component are still
\* iterating the old array: they keep the old array object.
Detach(s, c, pc, old) ==
    [i \in 1..Len(s) |->
        IF s[i].kind = "unload" /\ s[i].c = c /\ s[i].pc = pc /\ s[i].live
        THEN [s[i] EXCEPT !.live = FALSE, !.arr = old]
        ELSE s[i]]

\* Mutant: the iteration stops one element early.
HasNextSkipLast(f) == f.k < f.len - 1 /\ f.k < Len(ArrOf(f))

\* forEach visits index k only if k < the length read at the start and the
\* array still has that index.
HasNext(f) == f.k < f.len /\ f.k < Len(ArrOf(f))

\* Mutant: the iteration runs from the last element to the first.
ElemAtReversed(arr, k) == arr[Len(arr) - k]

\* The element forEach passes to the callback at (0-based) index k.
ElemAt(arr, k) == arr[k + 1]

\* ---------------------------------------------------------------- load
\* Mutant: load() without its guard.
LoadGuardNever(c) == FALSE

LoadGuard(c) == loaded[c]

Load(c) ==
    /\ CanCall
    /\ calls' = calls + 1
    /\ last' = Call("load", c, 0, 0, <<>>)
    /\ IF LoadGuard(c)
       THEN UNCHANGED <<loaded, log>> /\ stack' = Dirty(stack)
       ELSE /\ loaded' = [loaded EXCEPT ![c] = TRUE]
            /\ Len(stack) < MaxDepth
            /\ log' = Append(log, Event("onload", c, Len(log) + 1, 0, <<>>))
            /\ stack' = Append(Dirty(stack), Frame("hook", c, Len(log) + 1, "onload", 0))
    /\ UNCHANGED <<children, intervals, disposables, regs>>
    /\ UNCHANGED <<plugin, env>>

\* ---------------------------------------------------------------- unload
\* Mutant: unload() without its guard.
UnloadGuardNever(c) == FALSE

UnloadGuard(c) == ~loaded[c]

\* Mutant: onunload() runs before the disposables.
NextPhaseSwapped(pc) ==
    CASE pc = "children" -> "intervals"
      [] pc = "intervals" -> "onunload"
      [] pc = "onunload" -> "disposables"
      [] OTHER -> "finish"

\* The statements of unload() after the guard, in order.
FirstPhase == "children"
NextPhase(pc) ==
    CASE pc = "children" -> "intervals"
      [] pc = "intervals" -> "disposables"
      [] pc = "disposables" -> "onunload"
      [] OTHER -> "finish"

\* The length a forEach reads when it starts.
StartLen(pc, c) ==
    CASE pc = "children" -> Len(children[c])
      [] pc = "disposables" -> Len(disposables[c])
      [] OTHER -> 0

\* History: the register calls so far, recorded where the disposables' forEach starts.
StartEvents(pc, c, inv) ==
    IF pc = "disposables" THEN <<Event("disposables", c, inv, 0, regs[c])>> ELSE <<>>

\* The frame moves on to its next statement.
Advance(f) ==
    [f EXCEPT !.pc = NextPhase(f.pc), !.k = 0, !.len = StartLen(NextPhase(f.pc), f.c),
              !.live = TRUE, !.arr = <<>>]

\* Entering unload() on c from stack s with log l: nothing if the guard
\* returns, else a new frame that starts iterating the children.
EnterStack(c, s, l) ==
    IF UnloadGuard(c) THEN s
    ELSE Append(s, Frame("unload", c, Len(l) + 1, FirstPhase, StartLen(FirstPhase, c)))

EnterLog(c, l) ==
    IF UnloadGuard(c) THEN l
    ELSE Append(l, Event("unload", c, Len(l) + 1, 0, children[c]))
                \o StartEvents(FirstPhase, c, Len(l) + 1)

Unload(c) ==
    /\ CanCall
    /\ calls' = calls + 1
    /\ last' = Call("unload", c, 0, 0, <<>>)
    /\ UnloadGuard(c) \/ Len(stack) < MaxDepth
    /\ stack' = EnterStack(c, Dirty(stack), log)
    /\ log' = EnterLog(c, log)
    /\ UNCHANGED <<loaded, children, intervals, disposables, regs>>
    /\ UNCHANGED <<plugin, env>>

\* this._children.forEach((child) => child.unload()) : one iteration
UnloadChild ==
    /\ stack # <<>>
    /\ Top.kind = "unload" /\ Top.pc = "children"
    /\ HasNext(Top)
    /\ LET f == Top
           child == ElemAt(ArrOf(f), f.k)
           l1 == Append(log, Event("childUnload", f.c, f.inv, child, <<>>))
           s1 == SetTop(stack, [f EXCEPT !.k = f.k + 1])
       IN /\ UnloadGuard(child) \/ Len(stack) < MaxDepth
          /\ stack' = EnterStack(child, s1, l1)
          /\ log' = EnterLog(child, l1)
    /\ UNCHANGED <<loaded, children, intervals, disposables, regs, last, calls>>
    /\ UNCHANGED <<plugin, env>>

\* this._children = []
UnloadChildrenDone ==
    /\ stack # <<>>
    /\ Top.kind = "unload" /\ Top.pc = "children"
    /\ ~HasNext(Top)
    /\ LET f == Top
       IN /\ children' = [children EXCEPT ![f.c] = <<>>]
          /\ stack' = SetTop(Detach(stack, f.c, "children", children[f.c]), Advance(f))
          /\ log' = log \o StartEvents(NextPhase(f.pc), f.c, f.inv)
    /\ UNCHANGED <<loaded, intervals, disposables, regs, last, calls>>
    /\ UNCHANGED <<plugin, env>>

RECURSIVE ClearEvents(_, _, _)
ClearEvents(c, inv, hs) ==
    IF hs = <<>> THEN <<>>
    ELSE <<Event("clearInterval", c, inv, Head(hs), <<>>)>> \o ClearEvents(c, inv, Tail(hs))

\* Mutant: the timers are cancelled but the array is not reset.
UnloadIntervalsKeep ==
    /\ stack # <<>>
    /\ Top.kind = "unload" /\ Top.pc = "intervals"
    /\ LET f == Top
       IN /\ log' = log \o ClearEvents(f.c, f.inv, intervals[f.c])
                        \o StartEvents(NextPhase(f.pc), f.c, f.inv)
          /\ stack' = SetTop(stack, Advance(f))
    /\ UNCHANGED <<loaded, children, intervals, disposables, regs, last, calls>>
    /\ UNCHANGED <<plugin, env>>

\* this._intervals.forEach((id) => window.clearInterval(id)); this._intervals = []
UnloadIntervals ==
    /\ stack # <<>>
    /\ Top.kind = "unload" /\ Top.pc = "intervals"
    /\ LET f == Top
       IN /\ intervals' = [intervals EXCEPT ![f.c] = <<>>]
          /\ log' = log \o ClearEvents(f.c, f.inv, intervals[f.c])
                        \o StartEvents(NextPhase(f.pc), f.c, f.inv)
          /\ stack' = SetTop(stack, Advance(f))
    /\ UNCHANGED <<loaded, children, disposables, regs, last, calls>>
    /\ UNCHANGED <<plugin, env>>

\* What a disposable is: a callback of the user ("hook"), or one of the arrow
\* functions the Plugin methods pass to register ("closure").
CbKind(cb) == IF cb \in Cbs THEN "hook" ELSE "closure"

\* this._disposables.forEach((cb) => cb()) : one iteration
UnloadDisposable ==
    /\ stack # <<>>
    /\ Top.kind = "unload" /\ Top.pc = "disposables"
    /\ HasNext(Top)
    /\ Len(stack) < MaxDepth
    /\ LET f == Top
           cb == ElemAt(ArrOf(f), f.k)
       IN /\ log' = Append(log, Event("dispose", f.c, f.inv, cb, <<>>))
          /\ stack' = Append(SetTop(stack, [f EXCEPT !.k = f.k + 1]),
                             Frame(CbKind(cb), f.c, f.inv, "dispose", 0))
    /\ UNCHANGED <<loaded, children, intervals, disposables, regs, last, calls>>
    /\ UNCHANGED <<plugin, env>>

\* this._disposables = []
UnloadDisposablesDone ==
    /\ stack # <<>>
    /\ Top.kind = "unload" /\ Top.pc = "disposables"
    /\ ~HasNext(Top)
    /\ LET f == Top
       IN /\ disposables' = [disposables EXCEPT ![f.c] = <<>>]
          /\ regs' = [regs EXCEPT ![f.c] = <<>>]
          /\ stack' = SetTop(Detach(stack, f.c, "disposables", disposables[f.c]), Advance(f))
          /\ log' = log \o StartEvents(NextPhase(f.pc), f.c, f.inv)
    /\ UNCHANGED <<loaded, children, intervals, last, calls>>
    /\ UNCHANGED <<plugin, env>>

\* this.onunload()
UnloadOnunload ==
    /\ stack # <<>>
    /\ Top.kind = "unload" /\ Top.pc = "onunload"
    /\ Len(stack) < MaxDepth
    /\ LET f == Top
       IN /\ log' = Append(log, Event("onunload", f.c, f.inv, 0, <<>>))
                        \o StartEvents(NextPhase(f.pc), f.c, f.inv)
          /\ stack' = Append(SetTop(stack, Advance(f)),
                             Frame("hook", f.c, f.inv, "onunload", 0))
    /\ UNCHANGED <<loaded, children, intervals, disposables, regs, last, calls>>
    /\ UNCHANGED <<plugin, env>>

\* this._loaded = false; and unload() returns
UnloadFinish ==
    /\ stack # <<>>
    /\ Top.kind = "unload" /\ Top.pc = "finish"
    /\ loaded' = [loaded EXCEPT ![Top.c] = FALSE]
    /\ log' = Append(log, Event("unloaded", Top.c, Top.inv, 0, <<>>))
    /\ stack' = Pop(stack)
    /\ UNCHANGED <<children, intervals, disposables, regs, last, calls>>
    /\ UNCHANGED <<plugin, env>>

\* A hook (onload, onunload, a disposable) returns.
HookReturn ==
    /\ stack # <<>>
    /\ Top.kind = "hook"
    /\ stack' = Pop(stack)
    /\ UNCHANGED <<loaded, children, intervals, disposables, log, regs, last, calls>>
    /\ UNCHANGED <<plugin, env>>

\* ---------------------------------------------------------------- registration
\* Mutant: register on an unloaded component runs the callback at once.
RegisterEager(c, cb) ==
    /\ CanCall
    /\ Len(disposables[c]) < MaxLen
    /\ calls' = calls + 1
    /\ last' = Call("register", c, cb, 0, <<>>)
    /\ IF loaded[c]
       THEN /\ disposables' = [disposables EXCEPT ![c] = Push(@, cb)]
            /\ regs' = [regs EXCEPT ![c] = Append(@, cb)]
            /\ stack' = Dirty(stack)
            /\ UNCHANGED log
       ELSE /\ Len(stack) < MaxDepth
            /\ log' = Append(log, Event("dispose", c, 0, cb, <<>>))
            /\ stack' = Append(Dirty(stack), Frame("hook", c, 0, "dispose", 0))
            /\ UNCHANGED <<disposables, regs>>
    /\ UNCHANGED <<loaded, children, intervals>>
    /\ UNCHANGED <<plugin, env>>

Register(c, cb) ==
    /\ CanCall
    /\ Len(disposables[c]) < MaxLen
    /\ calls' = calls + 1
    /\ last' = Call("register", c, cb, 0, <<>>)
    /\ disposables' = [disposables EXCEPT ![c] = Push(@, cb)]
    /\ regs' = [regs EXCEPT ![c] = Append(@, cb)]
    /\ stack' = Dirty(stack)
    /\ UNCHANGED <<loaded, children, intervals, log>>
    /\ UNCHANGED <<plugin, env>>

RegisterInterval(c, id) ==
    /\ CanCall
    /\ Len(intervals[c]) < MaxLen
    /\ calls' = calls + 1
    /\ last' = Call("registerInterval", c, id, id, <<>>)
    /\ intervals' = [intervals EXCEPT ![c] = Push(@, id)]
    /\ stack' = Dirty(stack)
    /\ UNCHANGED <<loaded, children, disposables, log, regs>>
    /\ UNCHANGED <<plugin, env>>

\* Mutant: addChild loads the child when the parent is loaded.
AddChildAutoLoad(p, component) ==
    /\ CanCall
    /\ Len(children[p]) < MaxLen
    /\ calls' = calls + 1
    /\ last' = Call("addChild", p, component, component, children[p])
    /\ children' = [children EXCEPT ![p] = Push(@, component)]
    /\ IF loaded[p] /\ ~LoadGuard(component)
       THEN /\ Len(stack) < MaxDepth
            /\ loaded' = [loaded EXCEPT ![component] = TRUE]
            /\ log' = Append(log, Event("onload", component, Len(log) + 1, 0, <<>>))
            /\ stack' = Append(Dirty(stack),
                               Frame("hook", component, Len(log) + 1, "onload", 0))
       ELSE /\ stack' = Dirty(stack)
            /\ UNCHANGED <<loaded, log>>
    /\ UNCHANGED <<intervals, disposables, regs>>
    /\ UNCHANGED <<plugin, env>>

AddChild(p, component) ==
    /\ CanCall
    /\ Len(children[p]) < MaxLen
    /\ calls' = calls + 1
    /\ last' = Call("addChild", p, component, component, children[p])
    /\ children' = [children EXCEPT ![p] = Push(@, component)]
    /\ stack' = Dirty(stack)
    /\ UNCHANGED <<loaded, intervals, disposables, log, regs>>
    /\ UNCHANGED <<plugin, env>>

\* Mutant: removeChild unloads the component it removes.
RemoveChildUnloads(p, component) ==
    /\ CanCall
    /\ calls' = calls + 1
    /\ last' = Call("removeChild", p, component, component, children[p])
    /\ LET index == IndexOf(children[p], component)
       IN children' = [children EXCEPT ![p] =
                          IF index # -1 THEN Splice1(@, index) ELSE @]
    /\ UnloadGuard(component) \/ Len(stack) < MaxDepth
    /\ stack' = EnterStack(component, Dirty(stack), log)
    /\ log' = EnterLog(component, log)
    /\ UNCHANGED <<loaded, intervals, disposables, regs>>
    /\ UNCHANGED <<plugin, env>>

RemoveChild(p, component) ==
    /\ CanCall
    /\ calls' = calls + 1
    /\ last' = Call("removeChild", p, component, component, children[p])
    /\ LET index == IndexOf(children[p], component)
       IN children' = [children EXCEPT ![p] =
                          IF index # -1 THEN Splice1(@, index) ELSE @]
    /\ stack' = Dirty(stack)
    /\ UNCHANGED <<loaded, intervals, disposables, log, regs>>
    /\ UNCHANGED <<plugin, env>>

\* ---------------------------------------------------------------- plugin state
\* The empty settings mapping {}.
EmptyMapping == 0
\* The settings mappings a plugin stores.
Data == {0, 1, 2}

\* JSON.stringify(data, null, 2): the text of a mapping.
Stringify(d) == 10 + d
\* A settings file that is not JSON.
CorruptText == 1
\* No settings file.
NoFile == 0
Files == {NoFile, CorruptText} \cup {Stringify(d) : d \in Data}

\* JSON.parse throws on this text.
ParseFails(t) == \A d \in Data : t # Stringify(d)
\* JSON.parse(text)
Parse(t) == CHOOSE d \in Data : t = Stringify(d)

\* A Plugin after its constructor.
NewPlugin ==
    [registeredCommands |-> <<>>, registeredEvents |-> <<>>, settingsData |-> EmptyMapping]

\* The application's registries, the elements attached to the document, the
\* containers the document has, the settings file and directory, what
\* console.error logged, and how the last loadData()/saveData() promise settled.
NewEnv(file, containers) ==
    [commands |-> {}, events |-> {}, views |-> {}, extensions |-> {}, tabs |-> {},
     dom |-> {}, containers |-> containers,
     file |-> file, dir |-> file # NoFile, errors |-> <<>>,
     promise |-> [op |-> "none", state |-> "none", value |-> EmptyMapping, fail |-> "none"]]

\* ---------------------------------------------------------------- specification
Init ==
    /\ loaded = [c \in Comps |-> FALSE]
    /\ children = [c \in Comps |-> <<>>]
    /\ intervals = [c \in Comps |-> <<>>]
    /\ disposables = [c \in Comps |-> <<>>]
    /\ stack = <<>>
    /\ log = <<>>
    /\ regs = [c \in Comps |-> <<>>]
    /\ last = Call("new", 0, 0, 0, <<>>)
    /\ calls = 0
    /\ plugin = NewPlugin
    /\ env = NewEnv(NoFile, {"ribbon", "status"})

Next ==
    \/ \E c \in Comps : Load(c)
    \/ \E c \in Comps : Unload(c)
    \/ UnloadChild
    \/ UnloadChildrenDone
    \/ UnloadIntervals
    \/ UnloadDisposable
    \/ UnloadDisposablesDone
    \/ UnloadOnunload
    \/ UnloadFinish
    \/ HookReturn
    \/ \E c \in Comps, cb \in Cbs : Register(c, cb)
    \/ \E c \in Comps, id \in Handles : RegisterInterval(c, id)
    \/ \E pc \in Pairs : AddChild(pc[1], pc[2])
    \/ \E pc \in Pairs : RemoveChild(pc[1], pc[2])

Spec == Init /\ [][Next]_vars

\* ---------------------------------------------------------------- exceptions
\* load() and unload() contain no try/catch: an exception thrown by a hook
\* leaves every invocation of unload() between the hook and the nearest caller
\* that is user code (an enclosing hook, or the host).
RECURSIVE Unwind(_)
Unwind(s) ==
    IF s = <<>> THEN s
    ELSE IF s[Len(s)].kind = "hook" THEN s
    ELSE Unwind(Pop(s))

ThrowEv(pc) ==
    CASE pc = "onload" -> "onloadThrow"
      [] pc = "dispose" -> "disposeThrow"
      [] OTHER -> "onunloadThrow"

\* History: 1 if no hook called back into a component while the invocations
\* in progress ran.
AllClean(s) == IF \A i \in 1..Len(s) : s[i].clean THEN 1 ELSE 0

\* Mutant: load() catches the exception of onload() and resets the flag.
ThrowRollsBack ==
    /\ stack # <<>>
    /\ Top.kind = "hook"
    /\ log' = Append(log, Event(ThrowEv(Top.pc), Top.c, Top.inv, AllClean(stack), regs[Top.c]))
    /\ stack' = Unwind(Pop(stack))
    /\ loaded' = IF Top.pc = "onload" THEN [loaded EXCEPT ![Top.c] = FALSE] ELSE loaded
    /\ UNCHANGED <<children, intervals, disposables, regs, last, calls>>
    /\ UNCHANGED <<plugin, env>>

\* The running hook (onload, onunload, a disposable) throws.
Throw ==
    /\ stack # <<>>
    /\ Top.kind = "hook"
    /\ log' = Append(log, Event(ThrowEv(Top.pc), Top.c, Top.inv, AllClean(stack), regs[Top.c]))
    /\ stack' = Unwind(Pop(stack))
    /\ UNCHANGED <<loaded, children, intervals, disposables, regs, last, calls>>
    /\ UNCHANGED <<plugin, env>>

\* The runs with exceptions use a parent, which takes the registrations, and
\* one child.
ThrowParents == {1}
ThrowComps == {1, 2}
ThrowPairs == {<<1, 2>>}

NextThrow ==
    \/ \E c \in ThrowComps : Load(c)
    \/ \E c \in ThrowComps : Unload(c)
    \/ UnloadChild
    \/ UnloadChildrenDone
    \/ UnloadIntervals
    \/ UnloadDisposable
    \/ UnloadDisposablesDone
    \/ UnloadOnunload
    \/ UnloadFinish
    \/ HookReturn
    \/ Throw
    \/ \E c \in ThrowParents, cb \in Cbs : Register(c, cb)
    \/ \E c \in ThrowParents, id \in Handles : RegisterInterval(c, id)
    \/ \E pc \in ThrowPairs : AddChild(pc[1], pc[2])
    \/ \E pc \in ThrowPairs : RemoveChild(pc[1], pc[2])

SpecThrow == Init /\ [][NextThrow]_vars

\* ---------------------------------------------------------------- async onload
\* onload() is an async function: it returns a pending promise at its first
\* await. load() does not look at the value onload() returns.
OnloadSuspend ==
    /\ stack # <<>>
    /\ Top.kind = "hook" /\ Top.pc = "onload"
    /\ log' = Append(log, Event("suspend", Top.c, Top.inv, 0, regs[Top.c]))
    /\ stack' = Pop(stack)
    /\ UNCHANGED <<loaded, children, intervals, disposables, regs, last, calls>>
    /\ UNCHANGED <<plugin, env>>

\* The onload() invocations whose continuation has not run yet.
Pending(l) ==
    {i \in 1..Len(l) :
        /\ l[i].ev = "suspend"
        /\ \A j \in 1..Len(l) : ~(l[j].ev = "resume" /\ l[j].inv = l[i].inv)}

\* The event loop runs the continuation of a pending onload() once the host's
\* synchronous code has returned; the continuation is user code of the component.
OnloadResume ==
    /\ stack = <<>>
    /\ \E i \in Pending(log) :
          /\ log' = Append(log, Event("resume", log[i].c, log[i].inv, 0, regs[log[i].c]))
          /\ stack' = <<Frame("hook", log[i].c, log[i].inv, "continuation", 0)>>
    /\ UNCHANGED <<loaded, children, intervals, disposables, regs, last, calls>>
    /\ UNCHANGED <<plugin, env>>

\* The runs with an asynchronous onload() load and unload one component, which
\* takes the registrations and one child.
AsyncComps == {1}
AsyncPairs == {<<1, 2>>}

NextAsync ==
    \/ \E c \in AsyncComps : Load(c)
    \/ \E c \in AsyncComps : Unload(c)
    \/ UnloadChild
    \/ UnloadChildrenDone
    \/ UnloadIntervals
    \/ UnloadDisposable
    \/ UnloadDisposablesDone
    \/ UnloadOnunload
    \/ UnloadFinish
    \/ HookReturn
    \/ OnloadSuspend
    \/ OnloadResume
    \/ \E c \in AsyncComps, cb \in Cbs : Register(c, cb)
    \/ \E c \in AsyncComps, id \in Handles : RegisterInterval(c, id)
    \/ \E pc \in AsyncPairs : AddChild(pc[1], pc[2])
    \/ \E pc \in AsyncPairs : RemoveChild(pc[1], pc[2])

SpecAsync == Init /\ [][NextAsync]_vars

\* ---------------------------------------------------------------- reading the log
Range(s) == {s[i] : i \in 1..Len(s)}
Count(s, x) == Cardinality({i \in 1..Len(s) : s[i] = x})

\* The x fields of the events `ev` of invocation `inv`, in order.
XsOf(l, inv, ev) ==
    LET t == SelectSeq(l, LAMBDA e : e.inv = inv /\ e.ev = ev)
    IN [i \in 1..Len(t) |-> t[i].x]

HasEvent(l, inv, ev) == \E i \in 1..Len(l) : l[i].inv = inv /\ l[i].ev = ev

OnloadCount(l, c) == Cardinality({i \in 1..Len(l) : l[i].ev = "onload" /\ l[i].c = c})

\* The step is the call op(c, x) by the host or a hook.
IsCall(op, c, x) ==
    /\ calls' = calls + 1
    /\ last'.op = op /\ last'.c = c /\ last'.x = x

\* The step is the return of an unload() that ran the teardown of c.
IsFinish(c) ==
    /\ Len(log') = Len(log) + 1
    /\ log'[Len(log')].ev = "unloaded"
    /\ log'[Len(log')].c = c

\* Position of an effect in unload(): 1 children, 2 timers, 3 disposables,
\* 4 onunload, 5 the loaded flag is reset.
PhaseRank(ev) ==
    CASE ev = "childUnload" -> 1
      [] ev = "clearInterval" -> 2
      [] ev = "disposables" -> 3
      [] ev = "dispose" -> 3
      [] ev = "onunload" -> 4
      [] ev = "unloaded" -> 5
      [] OTHER -> 0

\* ---------------------------------------------------------------- C1
\* C1: the effects of one unload() invocation happen in phase order: every child
\* unload() call, then every clearInterval, then every disposable, then
\* onunload(), then the reset of loaded; and while an unload() that no hook
\* called back into is running, loaded is still true.
C1_PhaseOrder ==
    /\ \A i, j \in 1..Len(log) :
          (i < j /\ log[i].inv = log[j].inv)
              => PhaseRank(log[i].ev) <= PhaseRank(log[j].ev)
    /\ \A i \in 1..Len(stack) :
          (stack[i].kind = "unload" /\ stack[i].clean) => loaded[stack[i].c]

\* An unload() has returned after calling a child's unload(), cancelling a timer,
\* invoking a disposable and running onunload().
C1_Witness ==
    \E i \in 1..Len(log) :
        /\ log[i].ev = "unloaded"
        /\ ~loaded[log[i].c]
        /\ \A ev \in {"childUnload", "clearInterval", "dispose", "onunload"} :
              \E j \in 1..(i - 1) : log[j].inv = log[i].inv /\ log[j].ev = ev

\* ---------------------------------------------------------------- C2
\* C2: onload() of c is invoked in a step exactly when that step takes c from
\* unloaded to loaded (so it starts with loaded already true), and load() on a
\* loaded component, also one called from inside its own onload(), changes nothing.
C2_OnloadOncePerLoad ==
    [][\A c \in Comps :
          /\ OnloadCount(log', c) - OnloadCount(log, c)
                = (IF ~loaded[c] /\ loaded'[c] THEN 1 ELSE 0)
          /\ (IsCall("load", c, 0) /\ loaded[c])
                => /\ UNCHANGED <<loaded, children, intervals, disposables, log>>
                   /\ Len(stack') = Len(stack)]_vars

\* load(c) was called from inside c's own onload(), and onload() ran once.
C2_Witness ==
    /\ stack # <<>>
    /\ Top.kind = "hook" /\ Top.pc = "onload" /\ ~Top.clean
    /\ last.op = "load" /\ last.c = Top.c
    /\ calls = 2
    /\ loaded[Top.c]
    /\ OnloadCount(log, Top.c) = 1

\* ---------------------------------------------------------------- C3
\* C3: unload() on a component that is not loaded returns at once: no child is
\* unloaded, no timer cancelled, no disposable or onunload() invoked, and
\* loaded and the three collections stay as they were.
C3_UnloadNoop ==
    [][\A c \in Comps :
          (IsCall("unload", c, 0) /\ ~loaded[c])
              => /\ UNCHANGED <<loaded, children, intervals, disposables, log, regs>>
                 /\ Len(stack') = Len(stack)]_vars

\* unload() was called on a never-loaded component that holds a child, a timer
\* and a disposable, which are all still there.
C3_Witness ==
    /\ last.op = "unload"
    /\ ~loaded[last.c]
    /\ log = <<>>
    /\ children[last.c] # <<>>
    /\ intervals[last.c] # <<>>
    /\ disposables[last.c] # <<>>

\* ---------------------------------------------------------------- C4
\* C4: whenever an unload() that ran the teardown returns, the component's
\* children, intervals and disposables are empty and loaded is false, whatever
\* the hooks did while it ran.
C4_CleanSlate ==
    [][\A c \in Comps :
          IsFinish(c)
              => /\ children'[c] = <<>>
                 /\ intervals'[c] = <<>>
                 /\ disposables'[c] = <<>>
                 /\ ~loaded'[c]]_vars

\* ---------------------------------------------------------------- C5
\* C5: an unload() that no hook called back into calls unload() on the children
\* in the order they were added (the array as it was when unload() was
\* called), and every invocation started between two consecutive child calls
\* of one unload() has returned before the second call.
C5_ChildOrder ==
    /\ \A i \in 1..Len(stack) :
          (stack[i].kind = "unload" /\ stack[i].clean)
              => LET f == stack[i]
                     snap == log[f.inv].s
                 IN XsOf(log, f.inv, "childUnload")
                       = (IF f.pc = "children" THEN SubSeq(snap, 1, f.k) ELSE snap)
    /\ \A a, b \in 1..Len(log) :
          (/\ a < b
           /\ log[a].ev = "childUnload" /\ log[b].ev = "childUnload"
           /\ log[a].inv = log[b].inv)
              => \A i \in (a + 1)..(b - 1) :
                    log[i].ev = "unload"
                        => \E j \in (i + 1)..(b - 1) :
                              log[j].ev = "unloaded" /\ log[j].inv = i

\* A parent with children <<2, 3>> was unloaded: 2, which was loaded, was torn
\* down completely before unload() was called on 3.
C5_Witness ==
    \E v \in 1..Len(log) :
        /\ log[v].ev = "unload" /\ log[v].s = <<2, 3>>
        /\ XsOf(log, v, "childUnload") = <<2, 3>>
        /\ HasEvent(log, v, "unloaded")
        /\ \E a, b, d \in 1..Len(log) :
              /\ a < b /\ b < d
              /\ log[a].ev = "childUnload" /\ log[a].inv = v /\ log[a].x = 2
              /\ log[b].ev = "unloaded" /\ log[b].c = 2
              /\ log[d].ev = "childUnload" /\ log[d].inv = v /\ log[d].x = 3

\* ---------------------------------------------------------------- C6
\* C6: the disposables one unload() invokes are the register(cb) calls made on
\* the component since its disposables were last reset by an unload, up to the
\* start of the disposables phase: same callbacks, same order, same multiplicity.
C6_DisposeOrder ==
    \A i \in 1..Len(log) :
        log[i].ev = "disposables"
            => LET v == log[i].inv
                   d == XsOf(log, v, "dispose")
               IN IF HasEvent(log, v, "onunload") \/ HasEvent(log, v, "unloaded")
                  THEN d = log[i].s
                  ELSE Len(d) <= Len(log[i].s) /\ d = SubSeq(log[i].s, 1, Len(d))

\* The same callback was registered twice and unload() invoked it twice.
C6_Witness ==
    \E i \in 1..Len(log) :
        /\ log[i].ev = "disposables" /\ log[i].s = <<1, 1>>
        /\ XsOf(log, log[i].inv, "dispose") = <<1, 1>>
        /\ HasEvent(log, log[i].inv, "unloaded")

\* The callbacks 1 then 2 were registered and unload() invoked 1 then 2.
C6_WitnessOrder ==
    \E i \in 1..Len(log) :
        /\ log[i].ev = "disposables" /\ log[i].s = <<1, 2>>
        /\ XsOf(log, log[i].inv, "dispose") = <<1, 2>>
        /\ HasEvent(log, log[i].inv, "unloaded")

\* ---------------------------------------------------------------- C7
\* The step is the return of a call to unload() on p: the guard's, or the
\* teardown's.
UnloadReturns(p) ==
    \/ IsCall("unload", p, 0) /\ Len(stack') = Len(stack)
    \/ IsFinish(p)

C8_LoadLoadsChildren ==
    [][(/\ stack # <<>>
        /\ Top.kind = "hook" /\ Top.pc = "onload"
        /\ stack' = Pop(stack))
          => \A i \in 1..Len(children'[Top.c]) : loaded'[children'[Top.c][i]]]_vars

\* ---------------------------------------------------------------- C9
\* C9: addChild(c) on p appends c to p's children and returns c; it invokes no
\* hook and no load() or unload(), and leaves every loaded flag, the
\* intervals, the disposables and the other components' children unchanged.
C9_AddChildFrame ==
    [][\A p, x \in Comps :
          IsCall("addChild", p, x)
              => /\ children' = [children EXCEPT ![p] = Append(@, x)]
                 /\ last'.ret = x
                 /\ UNCHANGED <<loaded, intervals, disposables, log>>
                 /\ Len(stack') = Len(stack)]_vars

\* addChild was just called on a loaded parent with an unloaded child: the
\* child is in the children, was never loaded and is not loaded.
C9_Witness ==
    /\ last.op = "addChild"
    /\ loaded[last.c] /\ ~loaded[last.x]
    /\ last.x \in Range(children[last.c])
    /\ OnloadCount(log, last.x) = 0

\* ---------------------------------------------------------------- C10
\* C10 as claimed: addChild(x) followed by removeChild(x) leaves the children
\* without x.
C10_Original ==
    [][\A p, x \in Comps :
          (/\ last.op = "addChild" /\ last.c = p /\ last.x = x
           /\ IsCall("removeChild", p, x))
              => x \notin Range(children'[p])]_vars

\* C10 amended: removeChild(x) on p removes the first entry for x only (so after
\* addChild(x) the children are without x when x was not a child before, and
\* still hold x when it was), keeps the other entries in order, is a no-op when x
\* is not a child, returns x, and invokes neither x.unload() nor any hook; an
\* unload() of p that no hook called back into calls unload() only on
\* components that are in the children when it is called.
C10_RemoveChild ==
    /\ [][\A p, x \in Comps :
            IsCall("removeChild", p, x)
                => /\ Count(children'[p], x)
                        = (IF Count(children[p], x) = 0 THEN 0 ELSE Count(children[p], x) - 1)
                   /\ Count(children[p], x) <= 1 => x \notin Range(children'[p])
                   /\ SelectSeq(children'[p], LAMBDA y : y # x)
                        = SelectSeq(children[p], LAMBDA y : y # x)
                   /\ Len(children'[p]) = Len(children[p]) - (IF x \in Range(children[p]) THEN 1 ELSE 0)
                   /\ \A q \in Comps \ {p} : children'[q] = children[q]
                   /\ last'.ret = x
                   /\ UNCHANGED <<loaded, intervals, disposables, log>>
                   /\ Len(stack') = Len(stack)]_vars
    /\ [](\A i \in 1..Len(stack) :
            (stack[i].kind = "unload" /\ stack[i].clean)
                => Range(XsOf(log, stack[i].inv, "childUnload"))
                      \subseteq Range(log[stack[i].inv].s))

\* A loaded child was added to a loaded parent and removed again: it is no
\* longer in the children, is still loaded, and no unload() ran.
C10_Witness ==
    /\ last.op = "removeChild"
    /\ last.was = <<last.x>>
    /\ last.ret = last.x
    /\ loaded[last.c] /\ loaded[last.x]
    /\ children[last.c] = <<>>
    /\ \A i \in 1..Len(log) : log[i].ev = "onload"

\* ---------------------------------------------------------------- C11
\* The events `ev` of component c in the log l.
EventsFor(l, c, ev) == {i \in 1..Len(l) : l[i].ev = ev /\ l[i].c = c}

\* C11: register(cb) invokes nothing and only queues cb, also on an unloaded
\* component; an unload() on an unloaded component leaves the queue and the
\* log as they are; and when the unload() that follows the next load() returns
\* (no hook having called back into a component while it ran), it has invoked
\* every queued callback exactly as often as it was queued and the queue is
\* empty, so none is invoked again.
C11_QueuedUntilUnload ==
    /\ [][\A c \in Comps, cb \in Cbs :
            IsCall("register", c, cb)
                => /\ disposables'[c] = Append(disposables[c], cb)
                   /\ UNCHANGED <<log, loaded>>
                   /\ Len(stack') = Len(stack)]_vars
    /\ [][\A c \in Comps :
            (IsCall("unload", c, 0) /\ ~loaded[c])
                => disposables'[c] = disposables[c] /\ log' = log]_vars
    /\ [][(/\ stack # <<>>
           /\ Top.kind = "unload" /\ Top.pc = "finish" /\ Top.clean
           /\ IsFinish(Top.c))
             => /\ disposables'[Top.c] = <<>>
                /\ \E i \in 1..Len(log) :
                      /\ log[i].ev = "disposables" /\ log[i].inv = Top.inv
                      /\ \A cb \in Cbs :
                            Count(XsOf(log, Top.inv, "dispose"), cb) = Count(log[i].s, cb)]_vars

\* Three calls were made on component 1, a register(1), a load() and last an
\* unload(): the unload invoked callback 1 exactly once, out of a queue that
\* held just it, and nothing is queued any more.
C11_Witness ==
    /\ stack = <<>>
    /\ calls = 3
    /\ last.op = "unload" /\ last.c = 1
    /\ ~loaded[1]
    /\ disposables[1] = <<>>
    /\ Cardinality(EventsFor(log, 1, "onload")) = 1
    /\ \E i \in EventsFor(log, 1, "disposables") :
          log[i].s = <<1>> /\ XsOf(log, log[i].inv, "dispose") = <<1>>
    /\ Cardinality(EventsFor(log, 1, "dispose")) = 1
    /\ Cardinality(EventsFor(log, 1, "unloaded")) = 1

\* ---------------------------------------------------------------- C12
\* c was loaded at some point since its last completed unload (or since
\* construction).
LoadedSince(c) ==
    \E i \in EventsFor(log, c, "onload") :
        \A j \in EventsFor(log, c, "unloaded") : j < i

\* C12 as claimed: a collection of c is non-empty only if c is loaded or has
\* been loaded since its last completed unload.
C12_Original ==
    \A c \in Comps :
        (children[c] # <<>> \/ intervals[c] # <<>> \/ disposables[c] # <<>>)
            => (loaded[c] \/ LoadedSince(c))

\* C12 amended: a collection of c becomes non-empty only in a call of addChild,
\* registerInterval or register on c, whether c is loaded or not; and an
\* unload() of a loaded c leaves each collection empty at the moment it moves
\* on from that collection's phase.
C12_NonEmptyOnlyByRegistration ==
    /\ [][\A c \in Comps :
            /\ (children[c] = <<>> /\ children'[c] # <<>>)
                  => \E x \in Comps : IsCall("addChild", c, x)
            /\ (intervals[c] = <<>> /\ intervals'[c] # <<>>)
                  => \E id \in Handles : IsCall("registerInterval", c, id)
            /\ (disposables[c] = <<>> /\ disposables'[c] # <<>>)
                  => \E cb \in Cbs : IsCall("register", c, cb)]_vars
    /\ [][(/\ stack # <<>>
           /\ Top.kind = "unload"
           /\ Len(stack') = Len(stack)
           /\ stack'[Len(stack')].pc # Top.pc)
             => /\ Top.pc = "children" => children'[Top.c] = <<>>
                /\ Top.pc = "intervals" => intervals'[Top.c] = <<>>
                /\ Top.pc = "disposables" => disposables'[Top.c] = <<>>]_vars

\* A timer was just registered on a component that was never loaded: its
\* intervals are non-empty while it is unloaded.
C12_Witness ==
    /\ last.op = "registerInterval"
    /\ ~loaded[last.c]
    /\ EventsFor(log, last.c, "onload") = {}
    /\ intervals[last.c] = <<last.x>>

\* ---------------------------------------------------------------- C14
\* The step logs a disposable invocation or a timer cancellation of c.
Releases(c) ==
    \E i \in (Len(log) + 1)..Len(log') :
        log'[i].c = c /\ log'[i].ev \in {"dispose", "clearInterval"}

\* The step is a statement of an execution of c.unload().
InUnloadOf(c) == stack # <<>> /\ Top.kind = "unload" /\ Top.c = c

\* C14: the disposables of c are invoked and its timers cancelled only by a
\* statement of c.unload(), which executes only when c is loaded at the call;
\* apart from registrations on c itself, nothing else changes c's disposables
\* or timers; and a parent's unload that reaches an unloaded child leaves the
\* child's three collections as they are and runs nothing of the child.
C14_OwnUnloadOnly ==
    /\ [][\A c \in Comps :
            /\ Releases(c) => InUnloadOf(c)
            /\ disposables'[c] # disposables[c]
                  => \/ \E cb \in Cbs : IsCall("register", c, cb)
                     \/ InUnloadOf(c) /\ Top.pc = "disposables"
            /\ intervals'[c] # intervals[c]
                  => \/ \E id \in Handles : IsCall("registerInterval", c, id)
                     \/ InUnloadOf(c) /\ Top.pc = "intervals"
            /\ (/\ Len(stack') = Len(stack) + 1
                /\ stack'[Len(stack')].kind = "unload"
                /\ stack'[Len(stack')].c = c) => loaded[c]]_vars
    /\ [][(/\ stack # <<>>
           /\ Top.kind = "unload" /\ Top.pc = "children"
           /\ HasNext(Top)
           /\ ~loaded[ElemAt(ArrOf(Top), Top.k)])
             => LET child == ElemAt(ArrOf(Top), Top.k)
                IN /\ children'[child] = children[child]
                   /\ intervals'[child] = intervals[child]
                   /\ disposables'[child] = disposables[child]
                   /\ Len(stack') = Len(stack)
                   /\ \A i \in (Len(log) + 1)..Len(log') : log'[i].c # child]_vars

\* Parent 1 was unloaded with the never-loaded child 2 in its children: the
\* cascade visited 2, whose disposable is still queued and was never invoked.
C14_Witness ==
    /\ stack = <<>>
    /\ EventsFor(log, 1, "unloaded") # {}
    /\ \E i \in EventsFor(log, 1, "childUnload") : log[i].x = 2
    /\ \A i \in 1..Len(log) : log[i].c # 2
    /\ disposables[2] # <<>>

\* ---------------------------------------------------------------- C18
\* c was loaded when the log had i - 1 entries.
LoadedAt(l, c, i) ==
    \E j \in EventsFor(l, c, "onload") :
        j < i /\ \A m \in EventsFor(l, c, "unloaded") : m < j \/ m >= i

\* The events `ev` of c logged after entry i.
After(l, c, ev, i) == {j \in EventsFor(l, c, ev) : j > i}

\* C18: addChild appends an entry even if the child is already in the list;
\* when an unload() of a loaded parent returns, no hook having called back into
\* a component while it ran, child.unload() was called once per entry of the
\* children list, and the teardown of a child with an entry (its disposables
\* phase, its onunload(), the reset of its flag) ran once if the child was
\* loaded and not at all otherwise.
C18_DuplicateChild ==
    /\ [][\A p \in Comps, x \in Comps :
            IsCall("addChild", p, x)
                => Count(children'[p], x) = Count(children[p], x) + 1]_vars
    /\ [][(/\ stack # <<>>
           /\ Top.kind = "unload" /\ Top.pc = "finish" /\ Top.clean
           /\ IsFinish(Top.c))
             => LET inv == Top.inv
                    was == log[inv].s
                IN \A x \in Comps :
                      /\ Count(XsOf(log, inv, "childUnload"), x) = Count(was, x)
                      /\ Count(was, x) >= 1 =>
                            LET n == IF LoadedAt(log, x, inv) THEN 1 ELSE 0
                            IN /\ Cardinality(After(log, x, "unload", inv)) = n
                               /\ Cardinality(After(log, x, "disposables", inv)) = n
                               /\ Cardinality(After(log, x, "onunload", inv)) = n
                               /\ Cardinality(After(log, x, "unloaded", inv)) = n
                               /\ ~loaded[x]]_vars

\* Parent 1 held the loaded child 2 twice and was unloaded: two calls of
\* 2.unload(), one teardown of 2.
C18_Witness ==
    /\ stack = <<>>
    /\ \E i \in EventsFor(log, 1, "unload") :
          /\ log[i].s = <<2, 2>>
          /\ XsOf(log, i, "childUnload") = <<2, 2>>
          /\ LoadedAt(log, 2, i)
    /\ Cardinality(EventsFor(log, 2, "onunload")) = 1
    /\ Cardinality(EventsFor(log, 2, "unloaded")) = 1
    /\ EventsFor(log, 1, "unloaded") # {}

\* ---------------------------------------------------------------- C13
\* C13 as claimed: when a disposable of an unload() has thrown (no hook having
\* called back into a component) and control is back at the host, every
\* disposable that was queued when the disposables phase started has been
\* invoked.
C13_Isolated ==
    stack = <<>> =>
        \A i \in 1..Len(log) :
            (log[i].ev = "disposeThrow" /\ log[i].x = 1)
                => \E m \in 1..Len(log) :
                      /\ log[m].ev = "disposables" /\ log[m].inv = log[i].inv
                      /\ XsOf(log, log[i].inv, "dispose") = log[m].s

\* ---------------------------------------------------------------- C20
\* The step is onload() of c throwing.
IsOnloadThrow(c) ==
    /\ stack # <<>>
    /\ Top.kind = "hook" /\ Top.pc = "onload" /\ Top.c = c
    /\ Len(log') = Len(log) + 1
    /\ log'[Len(log')].ev = "onloadThrow"

\* onload() of c threw in the load cycle c is in.
OnloadThrew(c) ==
    \E i \in EventsFor(log, c, "onloadThrow") :
        \A j \in EventsFor(log, c, "unloaded") : j < i

\* C20: when onload() throws, load() is left at once (the exception reaches
\* load()'s caller) with the flag and the collections as they were, the flag
\* being true unless onload() itself had the component unloaded; a
\* load() of the loaded component runs nothing; and an unload() of it that
\* returns, no hook having called back into a component while it ran, has
\* unloaded the children, cancelled the timers, invoked the queued disposables
\* in order and run onunload(), leaving the collections empty and loaded false.
C20_OnloadThrows ==
    /\ [][\A c \in Comps :
            IsOnloadThrow(c)
                => /\ UNCHANGED <<loaded, children, intervals, disposables>>
                   /\ After(log, c, "unloaded", Top.inv) = {} => loaded'[c]
                   /\ stack' = Unwind(Pop(stack))]_vars
    /\ [][\A c \in Comps :
            (IsCall("load", c, 0) /\ loaded[c])
                => log' = log /\ UNCHANGED <<loaded, children, intervals, disposables>>
                   /\ Len(stack') = Len(stack)]_vars
    /\ [][\A c \in Comps :
            (IsCall("unload", c, 0) /\ OnloadThrew(c) /\ loaded[c])
                => /\ Len(stack') = Len(stack) + 1
                   /\ stack'[Len(stack')].kind = "unload"
                   /\ stack'[Len(stack')].c = c]_vars
    /\ [][(/\ stack # <<>>
           /\ Top.kind = "unload" /\ Top.pc = "finish" /\ Top.clean
           /\ OnloadThrew(Top.c)
           /\ IsFinish(Top.c))
             => LET inv == Top.inv
                IN /\ XsOf(log, inv, "childUnload") = log[inv].s
                   /\ \E m \in 1..Len(log) :
                         /\ log[m].ev = "disposables" /\ log[m].inv = inv
                         /\ XsOf(log, inv, "dispose") = log[m].s
                   /\ HasEvent(log, inv, "onunload")
                   /\ children'[Top.c] = <<>>
                   /\ intervals'[Top.c] = <<>>
                   /\ disposables'[Top.c] = <<>>
                   /\ ~loaded'[Top.c]]_vars

\* onload() of 1 registered a disposable and then threw; a second load() ran
\* nothing; the unload() that followed invoked the disposable, ran onunload()
\* and returned with 1 unloaded.
C20_Witness ==
    /\ stack = <<>>
    /\ ~loaded[1]
    /\ disposables[1] = <<>>
    /\ Cardinality(EventsFor(log, 1, "onload")) = 1
    /\ \E i \in EventsFor(log, 1, "onload"), t \in EventsFor(log, 1, "onloadThrow"),
          u \in EventsFor(log, 1, "unload") :
          /\ log[i].s = <<>> /\ log[t].inv = i /\ log[t].s = <<1>>
          /\ t < u
          /\ XsOf(log, u, "dispose") = <<1>>
          /\ HasEvent(log, u, "onunload")
          /\ HasEvent(log, u, "unloaded")
    /\ calls = 4

\* ---------------------------------------------------------------- C19
\* No invocation of c.unload() is in progress.
NotUnloading(c) == \A i \in 1..Len(stack) : ~(stack[i].kind = "unload" /\ stack[i].c = c)

IsPrefix(a, b) == Len(a) <= Len(b) /\ SubSeq(b, 1, Len(a)) = a

\* C19: load() returns as soon as onload() has returned its pending promise,
\* leaving loaded as it is (true); and while a component is unloaded and no
\* unload() of it is in progress, in particular after an unload() that ran
\* while the initialization was pending, registrations on it are appended and
\* kept: its disposables and timers are neither invoked nor cancelled nor
\* removed and its children change only by addChild/removeChild on it. They are
\* released only by an unload() entered while the component is loaded again.
C19_LateRegistration ==
    /\ [][(stack # <<>> /\ Top.kind = "hook" /\ Top.pc = "onload"
           /\ Len(log') = Len(log) + 1 /\ log'[Len(log')].ev = "suspend")
             => /\ UNCHANGED <<loaded, children, intervals, disposables>>
                /\ stack' = Pop(stack)
                /\ After(log, Top.c, "unloaded", Top.inv) = {} => loaded'[Top.c]]_vars
    /\ [][\A c \in Comps :
            (~loaded[c] /\ NotUnloading(c))
                => /\ IsPrefix(disposables[c], disposables'[c])
                   /\ IsPrefix(intervals[c], intervals'[c])
                   /\ ~Releases(c)
                   /\ children'[c] # children[c]
                         => \E x \in Comps : IsCall("addChild", c, x) \/ IsCall("removeChild", c, x)
                   /\ \A cb \in Cbs : IsCall("register", c, cb)
                         => disposables'[c] = Append(disposables[c], cb)
                   /\ \A id \in Handles : IsCall("registerInterval", c, id)
                         => intervals'[c] = Append(intervals[c], id)]_vars
    /\ [][\A c \in Comps :
            (/\ Len(stack') = Len(stack) + 1
             /\ stack'[Len(stack')].kind = "unload"
             /\ stack'[Len(stack')].c = c) => loaded[c]]_vars

\* onload() of 1 suspended, 1 was unloaded while it was pending, and the
\* continuation then registered a disposable: it is queued on the unloaded
\* component and nothing of 1 was invoked.
C19_Witness ==
    /\ stack # <<>>
    /\ Top.kind = "hook" /\ Top.pc = "continuation" /\ Top.c = 1
    /\ last.op = "register" /\ last.c = 1
    /\ ~loaded[1]
    /\ disposables[1] = <<last.x>>
    /\ EventsFor(log, 1, "dispose") = {}
    /\ \E i \in EventsFor(log, 1, "suspend"), u \in EventsFor(log, 1, "unloaded"),
          r \in EventsFor(log, 1, "resume") :
          /\ i < u /\ u < r
          /\ log[r].inv = log[i].inv
          /\ log[r].s = <<>>

\* ---------------------------------------------------------------- Plugin
\* The component that is a Plugin, and the command ids, event references, view
\* types and extension lists it registers.
PluginComps == {1}
Ids == {1}

\* The arrow functions Plugin passes to register, by what they undo.
ViewCb(type) == 20 + type
ExtCb(extensions) == 30 + extensions
TabCb == 40
\* The elements loadCss, addRibbonIcon and addStatusBarItem create, and the
\* arrow functions that remove them.
StyleEl == 51
RibbonEl == 52
StatusEl == 53
RemoveCb(element) == element

\* A call of a Plugin method m(x) on p that returns ret.
PluginCall(m, p, x, ret) ==
    /\ CanCall
    /\ calls' = calls + 1
    /\ last' = Call(m, p, x, ret, disposables[p])
    /\ stack' = Dirty(stack)

\* this.register(cb) inside a Plugin method
ThisRegister(p, cb) ==
    /\ disposables' = [disposables EXCEPT ![p] = Push(@, cb)]
    /\ regs' = [regs EXCEPT ![p] = Append(@, cb)]

\* addCommand(command)
AddCommand(p, id) ==
    /\ PluginCall("addCommand", p, id, 0)
    /\ Len(plugin.registeredCommands) < MaxLen
    /\ env' = [env EXCEPT !.commands = @ \cup {id}]
    /\ plugin' = [plugin EXCEPT !.registeredCommands = Push(@, id)]
    /\ log' = Append(log, Event("addCommand", p, 0, id, <<>>))
    /\ UNCHANGED <<loaded, children, intervals, disposables, regs>>

\* registerEvent(ref), ref being what app.events.on returned
RegisterEvent(p, ref) ==
    /\ PluginCall("registerEvent", p, ref, 0)
    /\ Len(plugin.registeredEvents) < MaxLen
    /\ env' = [env EXCEPT !.events = @ \cup {ref}]
    /\ plugin' = [plugin EXCEPT !.registeredEvents = Push(@, ref)]
    /\ log' = Append(log, Event("registerEvent", p, 0, ref, <<>>))
    /\ UNCHANGED <<loaded, children, intervals, disposables, regs>>

\* registerView(type, viewCreator)
RegisterView(p, type) ==
    /\ PluginCall("registerView", p, type, 0)
    /\ Len(disposables[p]) < MaxLen
    /\ env' = [env EXCEPT !.views = @ \cup {type}]
    /\ ThisRegister(p, ViewCb(type))
    /\ UNCHANGED <<loaded, children, intervals, log, plugin>>

\* registerExtensions(extensions, viewType)
RegisterExtensions(p, extensions) ==
    /\ PluginCall("registerExtensions", p, extensions, 0)
    /\ Len(disposables[p]) < MaxLen
    /\ env' = [env EXCEPT !.extensions = @ \cup {extensions}]
    /\ ThisRegister(p, ExtCb(extensions))
    /\ UNCHANGED <<loaded, children, intervals, log, plugin>>

\* loadCss(css)
LoadCss(p) ==
    /\ PluginCall("loadCss", p, 0, 0)
    /\ Len(disposables[p]) < MaxLen
    /\ StyleEl \notin env.dom
    /\ env' = [env EXCEPT !.dom = @ \cup {StyleEl}]
    /\ ThisRegister(p, RemoveCb(StyleEl))
    /\ UNCHANGED <<loaded, children, intervals, log, plugin>>

\* An element is appended, and its removal registered, only if the document
\* has the container.
AppendTo(p, container, element) ==
    IF container \in env.containers
    THEN /\ env' = [env EXCEPT !.dom = @ \cup {element}]
         /\ ThisRegister(p, RemoveCb(element))
    ELSE UNCHANGED <<env, disposables, regs>>

\* addRibbonIcon(icon, title, callback)
AddRibbonIcon(p) ==
    /\ PluginCall("addRibbonIcon", p, 0, RibbonEl)
    /\ Len(disposables[p]) < MaxLen
    /\ RibbonEl \notin env.dom
    /\ AppendTo(p, "ribbon", RibbonEl)
    /\ UNCHANGED <<loaded, children, intervals, log, plugin>>

\* addStatusBarItem()
AddStatusBarItem(p) ==
    /\ PluginCall("addStatusBarItem", p, 0, StatusEl)
    /\ Len(disposables[p]) < MaxLen
    /\ StatusEl \notin env.dom
    /\ AppendTo(p, "status", StatusEl)
    /\ UNCHANGED <<loaded, children, intervals, log, plugin>>

\* addSettingTab(tab)
AddSettingTab(p) ==
    /\ PluginCall("addSettingTab", p, 0, 0)
    /\ Len(disposables[p]) < MaxLen
    /\ env' = [env EXCEPT !.tabs = @ \cup {p}]
    /\ ThisRegister(p, TabCb)
    /\ UNCHANGED <<loaded, children, intervals, log, plugin>>

\* What the arrow function cb does to the application and the document.
Reverse(e, p, cb) ==
    IF cb = TabCb THEN [e EXCEPT !.tabs = @ \ {p}]
    ELSE IF cb \in {RemoveCb(StyleEl), RemoveCb(RibbonEl), RemoveCb(StatusEl)}
         THEN [e EXCEPT !.dom = @ \ {cb}]
    ELSE IF \E t \in Ids : cb = ViewCb(t)
         THEN [e EXCEPT !.views = @ \ {t \in Ids : cb = ViewCb(t)}]
    ELSE [e EXCEPT !.extensions = @ \ {x \in Ids : cb = ExtCb(x)}]

\* One of Plugin's arrow functions, called by the disposables' forEach, runs
\* and returns.
RunReversal ==
    /\ Len(stack) >= 2
    /\ Top.kind = "closure"
    /\ LET below == stack[Len(stack) - 1]
           cb == ElemAt(ArrOf(below), below.k - 1)
       IN env' = Reverse(env, Top.c, cb)
    /\ stack' = Pop(stack)
    /\ UNCHANGED <<loaded, children, intervals, disposables, log, regs, last, calls, plugin>>

RECURSIVE Events(_, _, _, _)
Events(ev, c, inv, xs) ==
    IF xs = <<>> THEN <<>>
    ELSE <<Event(ev, c, inv, Head(xs), <<>>)>> \o Events(ev, c, inv, Tail(xs))

\* Plugin.onunload(), the base implementation: called by unload() if the
\* subclass does not override onunload(), by the override if it calls
\* super.onunload(), and not at all otherwise.
PluginOnunload ==
    /\ stack # <<>>
    /\ Top.kind = "hook" /\ Top.pc = "onunload"
    /\ Top.c \in PluginComps
    /\ Top.k = 0
    /\ env' = [env EXCEPT !.commands = @ \ Range(plugin.registeredCommands),
                          !.events = @ \ Range(plugin.registeredEvents)]
    /\ log' = log \o Events("unregister", Top.c, Top.inv, plugin.registeredCommands)
                  \o Events("off", Top.c, Top.inv, plugin.registeredEvents)
    /\ stack' = SetTop(stack, [Top EXCEPT !.k = 1])
    /\ UNCHANGED <<loaded, children, intervals, disposables, regs, last, calls, plugin>>

\* The plugin in a document that has or lacks the ribbon and the status bar.
InitPlugin ==
    /\ loaded = [c \in Comps |-> FALSE]
    /\ children = [c \in Comps |-> <<>>]
    /\ intervals = [c \in Comps |-> <<>>]
    /\ disposables = [c \in Comps |-> <<>>]
    /\ stack = <<>>
    /\ log = <<>>
    /\ regs = [c \in Comps |-> <<>>]
    /\ last = Call("new", 0, 0, 0, <<>>)
    /\ calls = 0
    /\ plugin = NewPlugin
    /\ \E containers \in SUBSET {"ribbon", "status"} : env = NewEnv(NoFile, containers)

NextPlugin ==
    \/ \E p \in PluginComps : Load(p)
    \/ \E p \in PluginComps : Unload(p)
    \/ UnloadChildrenDone
    \/ UnloadIntervals
    \/ UnloadDisposable
    \/ UnloadDisposablesDone
    \/ UnloadOnunload
    \/ UnloadFinish
    \/ HookReturn
    \/ RunReversal
    \/ PluginOnunload
    \/ \E p \in PluginComps, id \in Ids : AddCommand(p, id)
    \/ \E p \in PluginComps, ref \in Ids : RegisterEvent(p, ref)
    \/ \E p \in PluginComps, type \in Ids : RegisterView(p, type)
    \/ \E p \in PluginComps, x \in Ids : RegisterExtensions(p, x)
    \/ \E p \in PluginComps : LoadCss(p)
    \/ \E p \in PluginComps : AddRibbonIcon(p)
    \/ \E p \in PluginComps : AddStatusBarItem(p)
    \/ \E p \in PluginComps : AddSettingTab(p)

SpecPlugin == InitPlugin /\ [][NextPlugin]_vars

\* ---------------------------------------------------------------- C15
ConvenienceOps ==
    {"addCommand", "registerEvent", "registerView", "registerExtensions", "loadCss",
     "addRibbonIcon", "addStatusBarItem", "addSettingTab"}

\* C15 as claimed: a convenience registration that performs its side effect
\* appends exactly one callback to the plugin's disposables; and when the
\* plugin's unload() returns, every reversal it made (a command unregistered, a
\* listener detached) was made before onunload() was called.
C15_SugarOverRegister ==
    /\ [][\A p \in PluginComps :
            (/\ calls' = calls + 1
             /\ last'.op \in ConvenienceOps /\ last'.c = p
             /\ env' # env)
                => /\ Len(disposables'[p]) = Len(disposables[p]) + 1
                   /\ IsPrefix(disposables[p], disposables'[p])]_vars
    /\ [][(/\ stack # <<>>
           /\ Top.kind = "unload" /\ Top.pc = "finish" /\ Top.clean
           /\ Top.c \in PluginComps
           /\ IsFinish(Top.c))
             => \A j \in 1..Len(log) :
                   (log[j].inv = Top.inv /\ log[j].ev \in {"unregister", "off"})
                       => \E m \in (j + 1)..Len(log) :
                             log[m].inv = Top.inv /\ log[m].ev = "onunload"]_vars

\* ---------------------------------------------------------------- C16
\* C16 as claimed: when an unload() of the loaded plugin returns (no hook
\* having called back into a component while it ran), every command id passed
\* to addCommand while the plugin was loaded has since been passed to
\* app.commands.unregister, and every reference passed to registerEvent has
\* since been passed to app.events.off, whether or not the subclass's
\* onunload() calls the base implementation.
C16_AllUnregistered ==
    [][(/\ stack # <<>>
        /\ Top.kind = "unload" /\ Top.pc = "finish" /\ Top.clean
        /\ Top.c \in PluginComps
        /\ IsFinish(Top.c))
          => \A i \in 1..Len(log) :
                /\ (log[i].ev = "addCommand" /\ log[i].c = Top.c /\ LoadedAt(log, Top.c, i))
                      => \E j \in (i + 1)..Len(log) :
                            log[j].ev = "unregister" /\ log[j].x = log[i].x
                /\ (log[i].ev = "registerEvent" /\ log[i].c = Top.c /\ LoadedAt(log, Top.c, i))
                      => \E j \in (i + 1)..Len(log) :
                            log[j].ev = "off" /\ log[j].x = log[i].x]_vars

\* ---------------------------------------------------------------- settings data
\* The step of loadData() that throws, if it is reached.
LoadFails == {"none", "import", "path", "exists", "read"}
\* The step of saveData() that throws, if it is reached ("mkdir": any step of
\* ensureSettingsDir).
SaveFails == {"none", "import", "mkdir", "path", "write"}

\* Something throws inside loadData()'s try block: the import, the path or
\* the existence check; or, when the file exists, the read or JSON.parse.
LoadThrows(file, fail) ==
    \/ fail \in {"import", "path", "exists"}
    \/ file # NoFile /\ (fail = "read" \/ ParseFails(file))

\* Mutant: loadData() without its catch block.
LoadDataNoCatch(file, fail) ==
    IF LoadThrows(file, fail)
    THEN [state |-> "rejected", value |-> EmptyMapping, stored |-> FALSE, logged |-> FALSE]
    ELSE IF file = NoFile
    THEN [state |-> "resolved", value |-> EmptyMapping, stored |-> FALSE, logged |-> FALSE]
    ELSE [state |-> "resolved", value |-> Parse(file), stored |-> TRUE, logged |-> FALSE]

\* loadData(): how the promise settles, with what value, whether settingsData
\* was assigned and whether console.error was called.
LoadDataOutcome(file, fail) ==
    IF LoadThrows(file, fail)
    THEN [state |-> "resolved", value |-> EmptyMapping, stored |-> FALSE, logged |-> TRUE]
    ELSE IF file = NoFile
    THEN [state |-> "resolved", value |-> EmptyMapping, stored |-> FALSE, logged |-> FALSE]
    ELSE [state |-> "resolved", value |-> Parse(file), stored |-> TRUE, logged |-> FALSE]

LoadData(p, fail) ==
    /\ PluginCall("loadData", p, 0, 0)
    /\ LET out == LoadDataOutcome(env.file, fail)
       IN /\ plugin' = IF out.stored THEN [plugin EXCEPT !.settingsData = out.value]
                       ELSE plugin
          /\ env' = [env EXCEPT
                       !.errors = IF out.logged THEN Append(@, "load") ELSE @,
                       !.promise = [op |-> "loadData", state |-> out.state,
                                    value |-> out.value, fail |-> fail]]
    /\ UNCHANGED <<loaded, children, intervals, disposables, log, regs>>

\* ensureSettingsDir(): the directory afterwards; the method catches and logs
\* its own failure.
EnsureSettingsDir(dir, fail) == IF fail = "mkdir" THEN dir ELSE TRUE

\* saveData(data): what its try block gets done before something throws.
SaveDataOutcome(dir, fail) ==
    LET imported == fail # "import"
        dir1 == IF imported THEN EnsureSettingsDir(dir, fail) ELSE dir
        pathOk == imported /\ fail # "path"
        wrote == pathOk /\ fail # "write" /\ dir1
    IN [state |-> "resolved", dir |-> dir1, assigned |-> pathOk, wrote |-> wrote,
        errors |-> (IF imported /\ fail = "mkdir" THEN <<"dir">> ELSE <<>>)
                      \o (IF wrote THEN <<>> ELSE <<"save">>)]

SaveData(p, data, fail) ==
    /\ PluginCall("saveData", p, data, 0)
    /\ LET out == SaveDataOutcome(env.dir, fail)
       IN /\ plugin' = IF out.assigned THEN [plugin EXCEPT !.settingsData = data]
                       ELSE plugin
          /\ env' = [env EXCEPT
                       !.dir = out.dir,
                       !.file = IF out.wrote THEN Stringify(data) ELSE @,
                       !.errors = @ \o out.errors,
                       !.promise = [op |-> "saveData", state |-> out.state,
                                    value |-> EmptyMapping, fail |-> fail]]
    /\ UNCHANGED <<loaded, children, intervals, disposables, log, regs>>

\* The plugin with any settings file, or none, on disk.
InitData ==
    /\ loaded = [c \in Comps |-> FALSE]
    /\ children = [c \in Comps |-> <<>>]
    /\ intervals = [c \in Comps |-> <<>>]
    /\ disposables = [c \in Comps |-> <<>>]
    /\ stack = <<>>
    /\ log = <<>>
    /\ regs = [c \in Comps |-> <<>>]
    /\ last = Call("new", 0, 0, 0, <<>>)
    /\ calls = 0
    /\ plugin = NewPlugin
    /\ \E file \in Files, dir \in BOOLEAN :
          /\ file # NoFile => dir
          /\ env = [NewEnv(file, {"ribbon", "status"}) EXCEPT !.dir = dir]

NextData ==
    \/ \E p \in PluginComps : Load(p)
    \/ HookReturn
    \/ \E p \in PluginComps, cb \in Cbs : Register(p, cb)
    \/ \E p \in PluginComps, id \in Handles : RegisterInterval(p, id)
    \/ \E p \in PluginComps, fail \in LoadFails : LoadData(p, fail)
    \/ \E p \in PluginComps, data \in Data, fail \in SaveFails : SaveData(p, data, fail)

SpecData == InitData /\ [][NextData]_vars

\* ---------------------------------------------------------------- C17
\* C17: loadData() always resolves: with the empty mapping when there is no
\* settings file or when the import, path, existence, read or parse step
\* fails (a failure is logged), and otherwise with the mapping the file
\* stores, which it also keeps in settingsData. saveData(data) always
\* resolves: the file changes only to the text of data and only with the
\* directory in place, the directory is created unless creating it fails,
\* every failure is logged, and without a failure the file holds data.
\* Neither changes the loaded flag, the collections or the call stack's depth.
C17_NeverRejects ==
    /\ [][\A p \in PluginComps :
            IsCall("loadData", p, 0)
                => LET fail == env'.promise.fail
                       v == env'.promise.value
                       failed == \/ fail \in {"import", "path", "exists"}
                                 \/ env.file # NoFile /\ fail = "read"
                                 \/ env.file = CorruptText
                   IN /\ env'.promise.state = "resolved"
                      /\ (env.file = NoFile \/ failed) => v = EmptyMapping
                      /\ failed <=> env'.errors = Append(env.errors, "load")
                      /\ ~failed => env'.errors = env.errors
                      /\ (env.file # NoFile /\ ~failed)
                            => /\ env.file = Stringify(v)
                               /\ plugin'.settingsData = v
                      /\ env'.file = env.file
                      /\ UNCHANGED <<loaded, children, intervals, disposables>>
                      /\ Len(stack') = Len(stack)]_vars
    /\ [][\A p \in PluginComps, data \in Data :
            IsCall("saveData", p, data)
                => LET fail == env'.promise.fail
                   IN /\ env'.promise.state = "resolved"
                      /\ env'.file # env.file => env'.file = Stringify(data) /\ env'.dir
                      /\ fail # "mkdir" /\ fail # "import" => env'.dir
                      /\ fail = "none" => /\ env'.file = Stringify(data)
                                          /\ env'.errors = env.errors
                                          /\ plugin'.settingsData = data
                      /\ fail # "none" => Len(env'.errors) > Len(env.errors)
                      /\ UNCHANGED <<loaded, children, intervals, disposables>>
                      /\ Len(stack') = Len(stack)]_vars

\* The loaded plugin, holding a disposable and a timer, called loadData() on a
\* stored non-empty mapping and the read failed: the promise resolved with the
\* empty mapping and the failure was logged.
C17_Witness ==
    /\ last.op = "loadData"
    /\ env.promise.fail = "read"
    /\ env.promise.state = "resolved"
    /\ env.promise.value = EmptyMapping
    /\ \E d \in Data \ {EmptyMapping} : env.file = Stringify(d)
    /\ env.errors = <<"load">>
    /\ loaded[1] /\ disposables[1] # <<>> /\ intervals[1] # <<>>

\* ---------------------------------------------------------------- a loaded tree
\* The state after addChild(2) and addChild(3) on component 1 and load() on the
\* three components, each onload() having returned; the calls are counted from
\* here.
InitCascade ==
    /\ loaded = [c \in Comps |-> TRUE]
    /\ children = [c \in Comps |-> IF c = 1 THEN <<2, 3>> ELSE <<>>]
    /\ intervals = [c \in Comps |-> <<>>]
    /\ disposables = [c \in Comps |-> <<>>]
    /\ stack = <<>>
    /\ log = [i \in 1..3 |-> Event("onload", i, i, 0, <<>>)]
    /\ regs = [c \in Comps |-> <<>>]
    /\ last = Call("load", 3, 0, 0, <<>>)
    /\ calls = 0
    /\ plugin = NewPlugin
    /\ env = NewEnv(NoFile, {"ribbon", "status"})

SpecCascade == InitCascade /\ [][Next]_vars

\* ---------------------------------------------------------------- C21
\* C21 as claimed: when an unload() of a loaded parent returns, the only call
\* made meanwhile being parent.removeChild(x) on a child x the cascade had
\* already called unload() on, every component that was in the children when
\* the unload started has had unload() called on it and is unloaded.
C21_NoSiblingSkipped ==
    [][(/\ stack # <<>>
        /\ Top.kind = "unload" /\ Top.pc = "finish"
        /\ IsFinish(Top.c)
        /\ calls = 2
        /\ last.op = "removeChild" /\ last.c = Top.c
        /\ last.was = log[Top.inv].s
        /\ last.x \in Range(XsOf(log, Top.inv, "childUnload")))
          => \A x \in Range(log[Top.inv].s) :
                /\ x \in Range(XsOf(log, Top.inv, "childUnload"))
                /\ ~loaded'[x]]_vars

\* ---------------------------------------------------------------- hooks that call nothing
\* The host calls the component; onload(), onunload() and the disposables
\* return without calling it.
HostLoad(c) == stack = <<>> /\ Load(c)
HostUnload(c) == stack = <<>> /\ Unload(c)
HostRegister(c, cb) == stack = <<>> /\ Register(c, cb)
HostRegisterInterval(c, id) == stack = <<>> /\ RegisterInterval(c, id)
HostAddChild(p, component) == stack = <<>> /\ AddChild(p, component)
HostRemoveChild(p, component) == stack = <<>> /\ RemoveChild(p, component)

NextHost ==
    \/ \E c \in Comps : HostLoad(c)
    \/ \E c \in Comps : HostUnload(c)
    \/ UnloadChild
    \/ UnloadChildrenDone
    \/ UnloadIntervals
    \/ UnloadDisposable
    \/ UnloadDisposablesDone
    \/ UnloadOnunload
    \/ UnloadFinish
    \/ HookReturn
    \/ \E c \in Comps, cb \in Cbs : HostRegister(c, cb)
    \/ \E c \in Comps, id \in Handles : HostRegisterInterval(c, id)
    \/ \E pc \in Pairs : HostAddChild(pc[1], pc[2])
    \/ \E pc \in Pairs : HostRemoveChild(pc[1], pc[2])

SpecHost == Init /\ [][NextHost]_vars

\* ---------------------------------------------------------------- C22
\* C22: a component starts unloaded; the flag changes only from false to true
\* in a load() call on the component, which runs its onload(), and from true
\* to false at the end of its unload(), which has run its onunload() once;
\* register, registerInterval, addChild and removeChild leave every flag as
\* it is; a load() of an unloaded component runs onload() whether or not the
\* component was loaded before; and whenever no unload() of the component is
\* in progress, its onload() count minus its onunload() count is 1 if it is
\* loaded and 0 if not.
C22_TwoStates ==
    /\ (calls = 0 => \A c \in Comps : ~loaded[c])
    /\ [][\A c \in Comps :
            /\ (~loaded[c] /\ loaded'[c])
                  <=> (IsCall("load", c, 0) /\ ~loaded[c])
            /\ (~loaded[c] /\ loaded'[c])
                  <=> (/\ Len(log') = Len(log) + 1
                       /\ log'[Len(log')].ev = "onload" /\ log'[Len(log')].c = c)
            /\ (loaded[c] /\ ~loaded'[c])
                  <=> (InUnloadOf(c) /\ IsFinish(c))
            /\ (loaded[c] /\ ~loaded'[c])
                  => Count(XsOf(log, Top.inv, "onunload"), 0) = 1
            /\ (\E x \in Comps \cup Cbs \cup Handles :
                    \/ IsCall("register", c, x)
                    \/ IsCall("registerInterval", c, x)
                    \/ IsCall("addChild", c, x)
                    \/ IsCall("removeChild", c, x))
                  => loaded' = loaded]_vars
    /\ [](\A c \in Comps :
            NotUnloading(c)
                => Cardinality(EventsFor(log, c, "onload"))
                     - Cardinality(EventsFor(log, c, "onunload"))
                   = IF loaded[c] THEN 1 ELSE 0)

\* Component 1 was loaded, unloaded and loaded again: onload() ran twice,
\* onunload() once, and it is loaded.
C22_Witness ==
    /\ stack = <<>>
    /\ loaded[1]
    /\ last.op = "load" /\ last.c = 1
    /\ Cardinality(EventsFor(log, 1, "onload")) = 2
    /\ Cardinality(EventsFor(log, 1, "onunload")) = 1
    /\ Cardinality(EventsFor(log, 1, "unloaded")) = 1

\* ---------------------------------------------------------------- C23
\* C23 as claimed: onunload() runs at most once per load cycle, whatever the
\* hooks call: a component's onunload() never ran more often than its onload().
C23_AtMostOnce ==
    \A c \in Comps :
        Cardinality(EventsFor(log, c, "onunload")) <= Cardinality(EventsFor(log, c, "onload"))

\* ---------------------------------------------------------------- C24
\* C24 as claimed: when unload() empties the disposables of a component, every
\* callback in them has been invoked by that unload(), as often as it is
\* queued; when it empties the children, unload() has been called on every
\* child in them; when it empties the timers, each has been cancelled.
C24_NothingDiscarded ==
    [][\A c \in Comps :
          InUnloadOf(c) =>
              /\ (disposables[c] # <<>> /\ disposables'[c] = <<>>)
                    => \A cb \in Cbs :
                          Count(disposables[c], cb) <= Count(XsOf(log, Top.inv, "dispose"), cb)
              /\ (children[c] # <<>> /\ children'[c] = <<>>)
                    => \A x \in Comps :
                          Count(children[c], x) <= Count(XsOf(log, Top.inv, "childUnload"), x)
              /\ (intervals[c] # <<>> /\ intervals'[c] = <<>>)
                    => \A id \in Handles :
                          Count(intervals[c], id) <= Count(XsOf(log', Top.inv, "clearInterval"), id)]_vars

\* ---------------------------------------------------------------- C25
\* The reversal `rev` logged at j, made by an unload of a later load cycle of
\* the plugin, repeats a reversal of the same thing that was not registered
\* (`reg`) again since.
RepeatsEarlierCycle(j, rev, reg) ==
    \E i \in 1..(j - 1) :
        /\ log[i].ev = rev /\ log[i].c = log[j].c /\ log[i].x = log[j].x
        /\ \E m \in (i + 1)..(j - 1), n \in (i + 1)..(j - 1) :
              /\ log[m].ev = "unloaded" /\ log[m].c = log[j].c
              /\ log[n].ev = "onload" /\ log[n].c = log[j].c
              /\ m < n /\ n < log[j].inv
        /\ \A m \in (i + 1)..(j - 1) : ~(log[m].ev = reg /\ log[m].x = log[j].x)

\* C25 as claimed: app.commands.unregister(id) is called once per addCommand
\* and app.events.off(ref) once per registerEvent, by the unload of the cycle
\* that is ending: an unload never reverses again what an earlier cycle's
\* unload already reversed and nobody registered since.
C25_OnlyThisCycle ==
    \A j \in 1..Len(log) :
        /\ log[j].ev = "unregister" => ~RepeatsEarlierCycle(j, "unregister", "addCommand")
        /\ log[j].ev = "off" => ~RepeatsEarlierCycle(j, "off", "registerEvent")

\* ---------------------------------------------------------------- cycles
\* addChild does not look at the component it is given: a component can be
\* added to itself, or to one of its own descendants.
CycleComps == {1, 2}
CyclePairs == {<<1, 1>>, <<1, 2>>, <<2, 1>>}

\* child.unload() on a child that is still loaded and whose own unload() is
\* already iterating its children: the flag is only cleared on the last line
\* of unload(), so the guard does not stop the call and the same calls repeat
\* without end. The engine's call stack, MaxDepth frames here, runs out; the
\* RangeError leaves every unload() in progress, none of which catches it.
StackOverflow ==
    /\ stack # <<>>
    /\ Top.kind = "unload" /\ Top.pc = "children"
    /\ HasNext(Top)
    /\ Len(stack) >= MaxDepth
    /\ LET child == ElemAt(ArrOf(Top), Top.k)
       IN /\ ~UnloadGuard(child)
          /\ \E i \in 1..Len(stack) :
                stack[i].kind = "unload" /\ stack[i].c = child /\ stack[i].pc = "children"
    /\ log' = Append(log, Event("rangeError", Top.c, Top.inv, 0, <<>>))
    /\ stack' = Unwind(stack)
    /\ UNCHANGED <<loaded, children, intervals, disposables, regs, last, calls>>
    /\ UNCHANGED <<plugin, env>>

NextCycle ==
    \/ \E c \in CycleComps : HostLoad(c)
    \/ \E c \in CycleComps : HostUnload(c)
    \/ UnloadChild
    \/ StackOverflow
    \/ UnloadChildrenDone
    \/ UnloadIntervals
    \/ UnloadDisposable
    \/ UnloadDisposablesDone
    \/ UnloadOnunload
    \/ UnloadFinish
    \/ HookReturn
    \/ \E c \in CycleComps, cb \in Cbs : HostRegister(c, cb)
    \/ \E c \in CycleComps, id \in Handles : HostRegisterInterval(c, id)
    \/ \E pc \in CyclePairs : HostAddChild(pc[1], pc[2])
    \/ \E pc \in CyclePairs : HostRemoveChild(pc[1], pc[2])

SpecCycle == Init /\ [][NextCycle]_vars

\* ---------------------------------------------------------------- C26
\* C26 as claimed: whatever children relation addChild has built, cyclic ones
\* included, a call of unload() on a loaded component returns, and the
\* component is unloaded when it has returned. Here: once the host's call of
\* unload(c) is over (nothing left on the stack), c is not loaded.
C26_UnloadReturnsUnloaded ==
    (stack = <<>> /\ last.op = "unload") => ~loaded[last.c]

====
